---- MODULE Spec2Model ----
(***************************************************************************)
(* pg_diff_tool.py: the concurrent snapshot engine (DataVerifier), the     *)
(* snapshot reconciler (generate_excel_report) and the command flow (main).*)
(*                                                                         *)
(* Python strings that the program builds, splits or orders are sequences  *)
(* of one-character strings; strings the program only stores or compares   *)
(* with literals (tags, error messages, pc labels) are TLA+ strings.       *)
(***************************************************************************)
EXTENDS Integers, Sequences, FiniteSets, TLC

(***************************************************************************)
(* Bounds of the model.                                                    *)
(***************************************************************************)
\* largest number of tables the catalog holds
MaxTables == 2
\* largest --threads value
MaxThreads == 2
\* largest number of rows of a table
MaxRows == 2
\* width of the row-hash prefix (64 in the program, line 106)
HashBits == 2
\* Excel cell budget of line 300
CellLimit == 32000

(***************************************************************************)
(* Python values.                                                          *)
(***************************************************************************)
\* Python None, for the fields that hold None or a string
PyNone == "<None>"

\* the characters of the model, in code-point order
Chars == <<"-", ".", "0", "1", "2", "3", "4", "5", "6", "7", "8", "9", "a", "b">>

\* ord(c)
Code(c) == CHOOSE i \in 1..Len(Chars) : Chars[i] = c

\* s < t on Python str: code-point lexicographic order
LexLess(s, t) ==
    \E i \in 1..Len(t) :
        /\ \A j \in 1..(i - 1) : j <= Len(s) /\ s[j] = t[j]
        /\ (i > Len(s) \/ Code(s[i]) < Code(t[i]))

\* the decimal digits of n >= 0
RECURSIVE Digits(_)
Digits(n) ==
    IF n < 10 THEN <<Chars[n + 3]>>
    ELSE Digits(n \div 10) \o <<Chars[(n % 10) + 3]>>

\* str(n) of an integer (or of a Decimal with no fraction)
StrOfInt(n) == IF n < 0 THEN <<"-">> \o Digits(-n) ELSE Digits(n)

\* a Python value that is an int or a str
PyInt(n) == [isStr |-> FALSE, int |-> n, str |-> <<>>]

PyString(s) == [isStr |-> TRUE, int |-> 0, str |-> s]

\* str(v)
PyStr(v) == IF v.isStr THEN v.str ELSE StrOfInt(v.int)

\* list.sort() / sorted() on a list of str: insertion into a sorted list
RECURSIVE InsertSorted(_, _)
InsertSorted(x, s) ==
    IF s = <<>> THEN <<x>>
    ELSE IF LexLess(Head(s), x) THEN <<Head(s)>> \o InsertSorted(x, Tail(s))
    ELSE <<x>> \o s

RECURSIVE SortList(_)
SortList(s) == IF s = <<>> THEN <<>> ELSE InsertSorted(Head(s), SortList(Tail(s)))

\* sorted(S) of a set of str
RECURSIVE SortSet(_)
SortSet(S) ==
    IF S = {} THEN <<>>
    ELSE LET m == CHOOSE x \in S : \A y \in S \ {x} : LexLess(x, y)
         IN  <<m>> \o SortSet(S \ {m})

\* set(list)
Range(s) == {s[i] : i \in 1..Len(s)}

\* sep.join(list) of str
RECURSIVE Join(_, _)
Join(sep, s) ==
    IF s = <<>> THEN <<>>
    ELSE IF Len(s) = 1 THEN s[1]
    ELSE s[1] \o sep \o Join(sep, Tail(s))

\* all sequences over S of length at most n
SeqsUpTo(S, n) == UNION {[1..k -> S] : k \in 0..n}


(***************************************************************************)
(* The database the program reads: the catalog and, for each table, its    *)
(* rows, its primary-key column and the step at which a query on it fails. *)
(***************************************************************************)
\* schema names of the catalog (quoted identifiers may contain a dot)
SchemaNames == {<<"a">>, <<"a", ".", "a">>}

\* table names of the catalog
TableNames == {<<"a">>, <<"a", ".", "a">>}

\* ORDER BY n.nspname, c.relname
PairLess(p, q) == LexLess(p[1], q[1]) \/ (p[1] = q[1] /\ LexLess(p[2], q[2]))

RECURSIVE SortPairs(_)
SortPairs(S) ==
    IF S = {} THEN <<>>
    ELSE LET m == CHOOSE x \in S : \A y \in S \ {x} : PairLess(x, y)
         IN  <<m>> \o SortPairs(S \ {m})

\* the results query_tables can return: distinct (schema, table) rows, ordered
Catalogs(n) ==
    {SortPairs(S) : S \in {T \in SUBSET (SchemaNames \X TableNames) : Cardinality(T) <= n}}

\* values of the primary-key column
PkValues == {2, 10}

\* the smallest and the largest unsigned prefix of md5(t::text)
HashValues == {0, 2 ^ HashBits - 1}

\* a row: its primary-key value and its hash prefix
Rows == [pk : PkValues, h : HashValues]

\* where a table's fingerprint can fail
FailPoints == {"none", "connect", "stats", "pkcol", "pkfetch"}

\* the states of one table over the row lists R
TableStates(R) ==
    {o \in [rows : R, pk_col : {PyNone, "id"}, failAt : FailPoints] :
        o.pk_col = PyNone => o.failAt # "pkfetch"}

(***************************************************************************)
(* process_table's queries.                                                *)
(***************************************************************************)
\* the prefix read as an unsigned integer
ToUnsigned(u) == u

\* ('x' || substr(md5, 1, 16))::bit(64)::bigint: the prefix as a signed integer
ToBigint(u) == IF u >= 2 ^ (HashBits - 1) THEN u - 2 ^ HashBits ELSE u

\* a rolling combination, which depends on the order of the rows
RECURSIVE SumPrefixesOrdered(_)
SumPrefixesOrdered(rows) ==
    IF rows = <<>> THEN 0
    ELSE ToBigint(Head(rows).h) + 2 * SumPrefixesOrdered(Tail(rows))

\* SUM(...) over the rows, as numeric: no overflow
RECURSIVE SumPrefixes(_)
SumPrefixes(rows) ==
    IF rows = <<>> THEN 0 ELSE ToBigint(Head(rows).h) + SumPrefixes(Tail(rows))

\* row[1] of query_stats: COALESCE(SUM(...), 0)
Checksum(rows) == SumPrefixes(rows)

\* [str(row[0]) for row in cursor.fetchall()]
PkStrings(rows) == [i \in 1..Len(rows) |-> StrOfInt(rows[i].pk)]

\* key = f"{schema}.{table}"
Key(schema, table) == schema \o <<".">> \o table

\* result_data as initialised
DefaultResult ==
    [count |-> 0, checksum |-> PyInt(0), pks |-> <<>>, pk_col |-> PyNone,
     error |-> PyNone, isInt |-> FALSE]

\* the except clause: result_data["error"] = str(e)
Failed(rd, msg) == [rd EXCEPT !.error = msg]

\* the stats query's assignments
WithStats(rd, rows) ==
    [rd EXCEPT !.count = Len(rows), !.checksum = PyString(StrOfInt(Checksum(rows)))]

\* pks = [...]; pks.sort(); result_data["pks"] = pks
WithPks(rd, rows) == [rd EXCEPT !.pks = SortList(PkStrings(rows))]

(***************************************************************************)
(* The connection pool and the executor.                                   *)
(***************************************************************************)
\* maxconn=self.threads
MaxConn(t) == t

\* one worker more than the pool has connections
MaxWorkersPlusOne(t) == t + 1

\* max_workers=self.threads
MaxWorkers(t) == t

\* getconn succeeds while fewer than maxconn connections are in use
PoolHasRoom(u, t) == Cardinality(u) < MaxConn(t)

\* putconn never reached
ReleaseNever(holding, u, who) == u

\* finally: if conn: self.pool.putconn(conn)
Release(holding, u, who) == IF holding THEN u \ {who} ELSE u

\* snapshot[key] = data
Put(m, k, v) == [x \in DOMAIN m \cup {k} |-> IF x = k THEN v ELSE m[x]]

\* the empty dict
EmptyDict == [x \in {} |-> DefaultResult]

\* what process_table returns for a table in state o (lines 86-133)
FpOf(o) ==
    IF o.failAt \in {"connect", "stats"} THEN Failed(DefaultResult, o.failAt)
    ELSE LET a == WithStats(DefaultResult, o.rows)
             b == [a EXCEPT !.pk_col = o.pk_col]
         IN  IF o.failAt = "pkcol" THEN Failed(a, "pkcol")
             ELSE IF o.pk_col = PyNone THEN b
             ELSE IF o.failAt = "pkfetch" THEN Failed(b, "pkfetch")
             ELSE WithPks(b, o.rows)

(***************************************************************************)
(* generate_excel_report's helpers.                                        *)
(***************************************************************************)
\* all_keys = set(before_snapshot.keys()) | set(after_snapshot.keys())
AllKeys(b, a) == DOMAIN b \cup DOMAIN a

\* the keys in descending order
SortedDescending(S) ==
    LET up == SortSet(S) IN [i \in 1..Len(up) |-> up[Len(up) + 1 - i]]

\* sorted(all_keys)
Sorted(S) == SortSet(S)

\* key.split('.', 1): the index of the first dot, 0 when there is none
FirstDot(key) ==
    IF \E i \in 1..Len(key) : key[i] = "."
    THEN CHOOSE i \in 1..Len(key) : key[i] = "." /\ \A j \in 1..(i - 1) : key[j] # "."
    ELSE 0

SplitSchema(key) == SubSeq(key, 1, FirstDot(key) - 1)

SplitTable(key) == SubSeq(key, FirstDot(key) + 1, Len(key))

\* the default of snapshot.get(k, ...); pk_col and error are never read
AbsentData ==
    [count |-> 0, checksum |-> PyString(<<"0">>), pks |-> <<>>, pk_col |-> PyNone,
     error |-> PyNone, isInt |-> FALSE]

\* a value whose error is set is taken as absent
GetDataErrorAsAbsent(snap, k) ==
    IF k \notin DOMAIN snap THEN AbsentData
    ELSE IF snap[k].isInt THEN [AbsentData EXCEPT !.count = snap[k].count]
    ELSE IF snap[k].error # PyNone THEN AbsentData
    ELSE snap[k]

\* get_data(snapshot, k)
GetData(snap, k) ==
    IF k \notin DOMAIN snap THEN AbsentData
    ELSE IF snap[k].isInt THEN [AbsentData EXCEPT !.count = snap[k].count]
    ELSE snap[k]

\* the subtraction forgotten
PksDiffKeepsAll(x, y) == Range(x.pks)

\* the difference taken the wrong way round
PksDiffSwapped(x, y) == Range(y.pks) \ Range(x.pks)

\* set(x['pks']) - set(y['pks'])
PksDiff(x, y) == Range(x.pks) \ Range(y.pks)

\* the tag only when rows were lost
CountMismatchOnLoss(cb, ca) == cb > ca

\* line 282
CountMismatch(cb, ca) == cb # ca

\* the explanatory row only when rows were lost
CountOnlyDetailOnLoss(cb, ca, missing, added) == missing = {} /\ added = {} /\ cb > ca

\* line 311
CountOnlyDetail(cb, ca, missing, added) == missing = {} /\ added = {} /\ cb # ca

\* the condition without its key-set clauses
ContentMismatchNoKeys(cb, ca, csb, csa, missing, added) == cb = ca /\ csb # csa

\* the condition without its added-keys clause
ContentMismatchIgnoresAdded(cb, ca, csb, csa, missing, added) ==
    cb = ca /\ csb # csa /\ missing = {}

\* line 289
ContentMismatch(cb, ca, csb, csa, missing, added) ==
    cb = ca /\ csb # csa /\ missing = {} /\ added = {}

\* the condition without its checksum clause
IsChangeNoChecksum(cb, ca, csb, csa, missing, added) ==
    cb # ca \/ missing # {} \/ added # {}

\* line 292
IsChange(cb, ca, csb, csa, missing, added) ==
    cb # ca \/ missing # {} \/ added # {} \/ csb # csa

\* "...(truncated)"
TruncationMark ==
    <<".", ".", ".", "(", "t", "r", "u", "n", "c", "a", "t", "e", "d", ")">>

\* msg = ", ".join(ids); if len(msg) > 32000: msg = msg[:32000] + "...(truncated)"
CellText(ids) ==
    LET msg == Join(<<",", " ">>, ids)
    IN  IF Len(msg) > CellLimit THEN SubSeq(msg, 1, CellLimit) \o TruncationMark ELSE msg

\* a row of the Diff Details sheet
DetailRow(key, kind, ids, text) ==
    [schema |-> SplitSchema(key), table |-> SplitTable(key), kind |-> kind,
     ids |-> ids, text |-> text]

\* the loop body's local values for one key (lines 263-315)
DiffOf(before, after, key) ==
    LET b == GetData(before, key)
        a == GetData(after, key)
        cb == b.count
        ca == a.count
        csb == PyStr(b.checksum)
        csa == PyStr(a.checksum)
        missing == PksDiff(b, a)
        added == PksDiff(a, b)
        changed == IsChange(cb, ca, csb, csa, missing, added)
        ct1 == IF CountMismatch(cb, ca) THEN <<"Count Mismatch">> ELSE <<>>
        ct2 == IF ContentMismatch(cb, ca, csb, csa, missing, added)
               THEN <<"Content Mismatch">> ELSE <<>>
        ct3 == IF changed /\ missing # {} THEN <<"Missing IDs">> ELSE <<>>
        ct4 == IF changed /\ added # {} THEN <<"Added IDs">> ELSE <<>>
        missing_list == IF changed /\ missing # {} THEN Sorted(missing) ELSE <<>>
        added_list == IF changed /\ added # {} THEN Sorted(added) ELSE <<>>
        d1 == IF changed /\ missing # {}
              THEN <<DetailRow(key, "Missing IDs", CellText(missing_list), "")>> ELSE <<>>
        d2 == IF changed /\ added # {}
              THEN <<DetailRow(key, "Added IDs", CellText(added_list), "")>> ELSE <<>>
        d3 == IF changed /\ CountOnlyDetail(cb, ca, missing, added)
              THEN <<DetailRow(key, "Count Mismatch", <<>>, "No PK differences found")>>
              ELSE <<>>
        d4 == IF changed /\ missing = {} /\ added = {} /\ cb = ca /\ csb # csa
              THEN <<DetailRow(key, "Content Mismatch", <<>>, "Row count identical")>>
              ELSE <<>>
    IN  [key |-> key, count_before |-> cb, count_after |-> ca,
         checksum_before |-> csb, checksum_after |-> csa,
         missing_pks |-> missing, added_pks |-> added,
         missing_list |-> missing_list, added_list |-> added_list,
         is_change |-> IF changed THEN "Y" ELSE "N",
         change_type |-> ct1 \o ct2 \o ct3 \o ct4,
         details |-> d1 \o d2 \o d3 \o d4]

\* the orders in which ", ".join(set(change_type)) can list the tags
JoinedSets(tags) == {p \in [1..Cardinality(Range(tags)) -> Range(tags)] : Range(p) = Range(tags)}

VARIABLES
    threads,      \* self.threads
    tables,       \* the catalog: what query_tables returns
    db,           \* db[i]: the state of table tables[i]
    used,         \* the pool's connections in use: 0 the scan's own, i task i's
    exhausted,    \* some getconn found the pool exhausted
    scanPc,       \* position in get_table_snapshot_data
    submitted,    \* number of futures submitted
    pc,           \* pc[i]: position of task i in process_table
    conn,         \* conn[i]: task i's conn is not None
    result_data,  \* result_data[i] of task i
    collected,    \* the futures as_completed has yielded
    snapshot,     \* the scan's snapshot dict
    args,         \* the parsed command line
    mainPc,       \* position in main
    pool,         \* self.pool: "none", "open" or "closed"
    status,       \* the process's exit status, -1 while it runs
    file,         \* the snapshot file
    dump,         \* how perform_backup ended, "none" when it did not run
    before_snapshot,
    after_snapshot,
    todo,         \* the keys the report loop has still to visit
    ws_summary,   \* the rows of the Summary sheet
    ws_details,   \* the rows of the Diff Details sheet
    diffs         \* the loop's local values, one record per key visited

scanVars ==
    <<used, exhausted, scanPc, submitted, pc, conn, result_data, collected, snapshot>>

cfgVars == <<threads, tables, db>>

mainVars == <<args, mainPc, pool, status, file, dump, before_snapshot, after_snapshot>>

reportVars == <<todo, ws_summary, ws_details, diffs>>

vars == <<cfgVars, scanVars, mainVars, reportVars>>

N == Len(tables)

Running == {i \in 1..N : pc[i] \in {"stats", "pkcol", "pkfetch", "finally"}}

\* the state in which get_table_snapshot_data is called
ScanCalled ==
    /\ used = {}
    /\ exhausted = FALSE
    /\ scanPc = "call"
    /\ submitted = 0
    /\ pc = [i \in 1..N |-> "queued"]
    /\ conn = [i \in 1..N |-> FALSE]
    /\ result_data = [i \in 1..N |-> DefaultResult]
    /\ collected = {}
    /\ snapshot = EmptyDict

\* line 140: conn = self.pool.getconn()
ScanGetConn ==
    /\ mainPc = "scanning"
    /\ scanPc = "call"
    /\ IF PoolHasRoom(used, threads)
       THEN /\ used' = used \cup {0}
            /\ scanPc' = "enumerate"
            /\ UNCHANGED exhausted
       ELSE /\ exhausted' = TRUE
            /\ scanPc' = "raised"
            /\ UNCHANGED used
    /\ UNCHANGED <<cfgVars, mainVars, reportVars, submitted, pc, conn, result_data, collected, snapshot>>

\* lines 141-157: the catalog query, the finally, snapshot = {}
ScanListTables ==
    /\ scanPc = "enumerate"
    /\ used' = Release(TRUE, used, 0)
    /\ \E ok \in BOOLEAN :
          scanPc' = IF ~ok THEN "raised" ELSE IF N = 0 THEN "collect" ELSE "submit"
    /\ snapshot' = EmptyDict
    /\ UNCHANGED <<cfgVars, mainVars, reportVars, exhausted, submitted, pc, conn, result_data, collected>>

\* line 160: executor.submit(self.process_table, schema, table), in catalog order
Submit ==
    /\ scanPc = "submit"
    /\ submitted' = submitted + 1
    /\ scanPc' = IF submitted + 1 = N THEN "collect" ELSE "submit"
    /\ UNCHANGED <<cfgVars, mainVars, reportVars, used, exhausted, pc, conn, result_data, collected, snapshot>>

\* a free worker takes the oldest queued task: lines 84-96
TaskBegin(i) ==
    /\ i <= submitted
    /\ pc[i] = "queued"
    /\ \A j \in 1..(i - 1) : pc[j] # "queued"
    /\ Cardinality(Running) < MaxWorkers(threads)
    /\ IF ~PoolHasRoom(used, threads)
       THEN /\ exhausted' = TRUE
            /\ result_data' = [result_data EXCEPT ![i] = Failed(DefaultResult, "exhausted")]
            /\ pc' = [pc EXCEPT ![i] = "finally"]
            /\ UNCHANGED <<used, conn>>
       ELSE IF db[i].failAt = "connect"
       THEN /\ result_data' = [result_data EXCEPT ![i] = Failed(DefaultResult, "connect")]
            /\ pc' = [pc EXCEPT ![i] = "finally"]
            /\ UNCHANGED <<used, conn, exhausted>>
       ELSE /\ used' = used \cup {i}
            /\ conn' = [conn EXCEPT ![i] = TRUE]
            /\ result_data' = [result_data EXCEPT ![i] = DefaultResult]
            /\ pc' = [pc EXCEPT ![i] = "stats"]
            /\ UNCHANGED exhausted
    /\ UNCHANGED <<cfgVars, mainVars, reportVars, scanPc, submitted, collected, snapshot>>

\* lines 103-112: the count and checksum query
TaskStats(i) ==
    /\ pc[i] = "stats"
    /\ IF db[i].failAt = "stats"
       THEN /\ result_data' = [result_data EXCEPT ![i] = Failed(@, "stats")]
            /\ pc' = [pc EXCEPT ![i] = "finally"]
       ELSE /\ result_data' = [result_data EXCEPT ![i] = WithStats(@, db[i].rows)]
            /\ pc' = [pc EXCEPT ![i] = "pkcol"]
    /\ UNCHANGED <<cfgVars, mainVars, reportVars, used, exhausted, scanPc, submitted, conn, collected, snapshot>>

\* the key fetch entered whether or not a primary-key column was found
TaskPkColAlwaysFetch(i) ==
    /\ pc[i] = "pkcol"
    /\ IF db[i].failAt = "pkcol"
       THEN /\ result_data' = [result_data EXCEPT ![i] = Failed(@, "pkcol")]
            /\ pc' = [pc EXCEPT ![i] = "finally"]
       ELSE /\ result_data' = [result_data EXCEPT ![i].pk_col = db[i].pk_col]
            /\ pc' = [pc EXCEPT ![i] = "pkfetch"]
    /\ UNCHANGED <<cfgVars, mainVars, reportVars, used, exhausted, scanPc, submitted, conn, collected, snapshot>>

\* lines 115-118: get_primary_key_column on the same connection
TaskPkCol(i) ==
    /\ pc[i] = "pkcol"
    /\ IF db[i].failAt = "pkcol"
       THEN /\ result_data' = [result_data EXCEPT ![i] = Failed(@, "pkcol")]
            /\ pc' = [pc EXCEPT ![i] = "finally"]
       ELSE /\ result_data' = [result_data EXCEPT ![i].pk_col = db[i].pk_col]
            /\ pc' = [pc EXCEPT ![i] = IF db[i].pk_col # PyNone THEN "pkfetch" ELSE "finally"]
    /\ UNCHANGED <<cfgVars, mainVars, reportVars, used, exhausted, scanPc, submitted, conn, collected, snapshot>>

\* lines 121-124: fetch, stringify and sort the primary-key values
TaskPkFetch(i) ==
    /\ pc[i] = "pkfetch"
    /\ IF db[i].failAt = "pkfetch"
       THEN result_data' = [result_data EXCEPT ![i] = Failed(@, "pkfetch")]
       ELSE result_data' = [result_data EXCEPT ![i] = WithPks(@, db[i].rows)]
    /\ pc' = [pc EXCEPT ![i] = "finally"]
    /\ UNCHANGED <<cfgVars, mainVars, reportVars, used, exhausted, scanPc, submitted, conn, collected, snapshot>>

\* lines 129-133: the finally clause and the return
TaskFinally(i) ==
    /\ pc[i] = "finally"
    /\ used' = Release(conn[i], used, i)
    /\ pc' = [pc EXCEPT ![i] = "done"]
    /\ UNCHANGED <<cfgVars, mainVars, reportVars, exhausted, scanPc, submitted, conn, result_data, collected, snapshot>>

\* lines 162-164: as_completed yields a finished future; snapshot[key] = data
Collect(i) ==
    /\ scanPc = "collect"
    /\ pc[i] = "done"
    /\ i \notin collected
    /\ snapshot' = Put(snapshot, Key(tables[i][1], tables[i][2]), result_data[i])
    /\ collected' = collected \cup {i}
    /\ UNCHANGED <<cfgVars, mainVars, reportVars, used, exhausted, scanPc, submitted, pc, conn, result_data>>

\* line 166: every future was yielded, the executor has shut down
ScanReturn ==
    /\ scanPc = "collect"
    /\ collected = 1..N
    /\ scanPc' = "returned"
    /\ UNCHANGED <<cfgVars, mainVars, reportVars, used, exhausted, submitted, pc, conn, result_data, collected, snapshot>>

ScanStep ==
    \/ ScanGetConn
    \/ ScanListTables
    \/ Submit
    \/ \E i \in 1..N : TaskBegin(i)
    \/ \E i \in 1..N : TaskStats(i)
    \/ \E i \in 1..N : TaskPkCol(i)
    \/ \E i \in 1..N : TaskPkFetch(i)
    \/ \E i \in 1..N : TaskFinally(i)
    \/ \E i \in 1..N : Collect(i)
    \/ ScanReturn

(***************************************************************************)
(* main and the report.                                                    *)
(***************************************************************************)
\* sys.exit(1), or an exception nobody catches
Exit(code) ==
    /\ mainPc' = "exited"
    /\ status' = code

\* lines 28-54 and 362, 372: DataVerifier(...) builds the pool, or exits
InitPool ==
    /\ mainPc = "init"
    /\ \E ok \in BOOLEAN :
          IF ok
          THEN /\ pool' = "open"
               /\ mainPc' = IF args.command = "compare" THEN "load"
                            ELSE IF args.skip_dump THEN "snapshot" ELSE "dump"
               /\ UNCHANGED status
          ELSE /\ Exit(1)
               /\ UNCHANGED pool
    /\ UNCHANGED <<cfgVars, scanVars, reportVars, args, file, dump, before_snapshot, after_snapshot>>

\* a failed dump command ends the run
PerformBackupAborts ==
    /\ mainPc = "dump"
    /\ IF ~args.use_local /\ ~args.container_name
       THEN /\ Exit(1)
            /\ dump' = "exit"
       ELSE /\ dump' \in {"ok", "CalledProcessError", "Exception"}
            /\ IF dump' = "ok"
               THEN mainPc' = "snapshot" /\ UNCHANGED status
               ELSE Exit(1)
    /\ UNCHANGED <<cfgVars, scanVars, reportVars, args, pool, file, before_snapshot, after_snapshot>>

\* lines 168-211 and 365: perform_backup
PerformBackup ==
    /\ mainPc = "dump"
    /\ IF ~args.use_local /\ ~args.container_name
       THEN /\ Exit(1)
            /\ dump' = "exit"
       ELSE /\ dump' \in {"ok", "CalledProcessError", "Exception"}
            /\ mainPc' = "snapshot"
            /\ UNCHANGED status
    /\ UNCHANGED <<cfgVars, scanVars, reportVars, args, pool, file, before_snapshot, after_snapshot>>

\* a missing file read as an empty snapshot
LoadSnapshotLenient ==
    /\ mainPc = "load"
    /\ IF ~file.exists
       THEN /\ before_snapshot' = EmptyDict
            /\ mainPc' = "snapshot"
            /\ UNCHANGED status
       ELSE \E ok \in BOOLEAN :
               IF ok
               THEN /\ before_snapshot' = file.data
                    /\ mainPc' = "snapshot"
                    /\ UNCHANGED status
               ELSE /\ Exit(1)
                    /\ UNCHANGED before_snapshot
    /\ UNCHANGED <<cfgVars, scanVars, reportVars, args, pool, file, dump, after_snapshot>>

\* lines 218-223 and 375: load_snapshot
LoadSnapshot ==
    /\ mainPc = "load"
    /\ IF ~file.exists
       THEN /\ Exit(1)
            /\ UNCHANGED before_snapshot
       ELSE \E ok \in BOOLEAN :
               IF ok
               THEN /\ before_snapshot' = file.data
                    /\ mainPc' = "snapshot"
                    /\ UNCHANGED status
               ELSE /\ Exit(1)
                    /\ UNCHANGED before_snapshot
    /\ UNCHANGED <<cfgVars, scanVars, reportVars, args, pool, file, dump, after_snapshot>>

\* lines 369 and 379: the call of get_table_snapshot_data
CallScan ==
    /\ mainPc = "snapshot"
    /\ mainPc' = "scanning"
    /\ UNCHANGED <<cfgVars, scanVars, reportVars, args, pool, status, file, dump, before_snapshot, after_snapshot>>

\* get_table_snapshot_data raised: nothing in main catches it
ScanRaised ==
    /\ mainPc = "scanning"
    /\ scanPc = "raised"
    /\ Exit(1)
    /\ UNCHANGED <<cfgVars, scanVars, reportVars, args, pool, file, dump, before_snapshot, after_snapshot>>

\* lines 213-216 and 370: save_snapshot
SaveSnapshot ==
    /\ mainPc = "scanning"
    /\ scanPc = "returned"
    /\ args.command = "backup"
    /\ \E ok \in BOOLEAN :
          IF ok
          THEN /\ file' = [exists |-> TRUE, data |-> snapshot]
               /\ mainPc' = "close"
               /\ UNCHANGED status
          ELSE /\ Exit(1)
               /\ UNCHANGED file
    /\ UNCHANGED <<cfgVars, scanVars, reportVars, args, pool, dump, before_snapshot, after_snapshot>>

\* lines 229-253 and 379-382: the workbook, all_keys, sorted(all_keys)
ReportBegin ==
    /\ mainPc = "scanning"
    /\ scanPc = "returned"
    /\ args.command = "compare"
    /\ after_snapshot' = snapshot
    /\ todo' = Sorted(AllKeys(before_snapshot, snapshot))
    /\ ws_summary' = <<>>
    /\ ws_details' = <<>>
    /\ diffs' = <<>>
    /\ mainPc' = "report"
    /\ UNCHANGED <<cfgVars, scanVars, args, pool, status, file, dump, before_snapshot>>

\* lines 253-317: one iteration of the loop
ReportKey ==
    /\ mainPc = "report"
    /\ todo # <<>>
    /\ LET key == Head(todo)
           d == DiffOf(before_snapshot, after_snapshot, key)
       IN  IF FirstDot(key) = 0
           THEN /\ Exit(1)
                /\ UNCHANGED reportVars
           ELSE /\ diffs' = Append(diffs, d)
                /\ ws_details' = ws_details \o d.details
                /\ \E cell \in JoinedSets(d.change_type) :
                      ws_summary' = Append(ws_summary,
                          [schema |-> SplitSchema(key), table |-> SplitTable(key),
                           count_before |-> d.count_before, count_after |-> d.count_after,
                           is_change |-> d.is_change, change_type |-> cell])
                /\ todo' = Tail(todo)
                /\ UNCHANGED <<mainPc, status>>
    /\ UNCHANGED <<cfgVars, scanVars, args, pool, file, dump, before_snapshot, after_snapshot>>

\* line 319: wb.save(output_file)
ReportSave ==
    /\ mainPc = "report"
    /\ todo = <<>>
    /\ \E ok \in BOOLEAN :
          IF ok
          THEN /\ mainPc' = "close"
               /\ UNCHANGED status
          ELSE Exit(1)
    /\ UNCHANGED <<cfgVars, scanVars, reportVars, args, pool, file, dump, before_snapshot, after_snapshot>>

\* lines 56-58 and 384: verifier.close_pool(), then main returns
ClosePool ==
    /\ mainPc = "close"
    /\ pool' = IF pool # "none" THEN "closed" ELSE pool
    /\ Exit(0)
    /\ UNCHANGED <<cfgVars, scanVars, reportVars, args, file, dump, before_snapshot, after_snapshot>>

Next ==
    \/ InitPool
    \/ PerformBackup
    \/ LoadSnapshot
    \/ CallScan
    \/ ScanStep
    \/ ScanRaised
    \/ SaveSnapshot
    \/ ReportBegin
    \/ ReportKey
    \/ ReportSave
    \/ ClosePool

ReportStep == ReportBegin \/ ReportKey \/ ReportSave

(***************************************************************************)
(* The initial states.                                                     *)
(***************************************************************************)
\* the content of a scanned table: one row whose hash prefix has its top bit set
ScanRows == {<<[pk |-> 2, h |-> 2 ^ HashBits - 1]>>}

\* the table states of a scan: a table without primary key does not fail
ScanStates == {o \in TableStates(ScanRows) : o.pk_col = PyNone => o.failAt = "none"}

\* the command lines: compare takes no --skip-dump and ignores the dump mode
ArgSets ==
    {r \in [command : {"backup", "compare"}, skip_dump : BOOLEAN, use_local : BOOLEAN,
            container_name : BOOLEAN] :
        r.command = "compare" => (~r.skip_dump /\ ~r.use_local /\ r.container_name)}

\* the snapshot files a compare run can find
Files ==
    {[exists |-> FALSE, data |-> EmptyDict]} \cup
    {[exists |-> TRUE, data |-> [k \in K |-> FpOf(o)]] :
        K \in SUBSET {Key(<<"a">>, <<"a">>)}, o \in ScanStates}

NoReport ==
    /\ todo = <<>>
    /\ ws_summary = <<>>
    /\ ws_details = <<>>
    /\ diffs = <<>>

\* the process starts: main has parsed its arguments
Init ==
    /\ threads \in 1..MaxThreads
    /\ tables \in Catalogs(1)
    /\ db \in [1..N -> ScanStates]
    /\ args \in ArgSets
    /\ file \in IF args.command = "compare" THEN Files ELSE {[exists |-> FALSE, data |-> EmptyDict]}
    /\ mainPc = "init"
    /\ pool = "none"
    /\ status = -1
    /\ dump = "none"
    /\ before_snapshot = EmptyDict
    /\ after_snapshot = EmptyDict
    /\ ScanCalled
    /\ NoReport

Spec == Init /\ [][Next]_vars

\* get_table_snapshot_data is called, by either command
InitScan ==
    /\ threads \in 1..MaxThreads
    /\ tables \in Catalogs(MaxTables)
    /\ db \in [1..N -> ScanStates]
    /\ args = [command |-> "backup", skip_dump |-> TRUE, use_local |-> TRUE,
               container_name |-> TRUE]
    /\ file = [exists |-> FALSE, data |-> EmptyDict]
    /\ mainPc = "scanning"
    /\ pool = "open"
    /\ status = -1
    /\ dump = "none"
    /\ before_snapshot = EmptyDict
    /\ after_snapshot = EmptyDict
    /\ ScanCalled
    /\ NoReport

SpecScan == InitScan /\ [][ScanStep]_vars

\* a row with any hash prefix
FpRows == [pk : PkValues, h : 0..(2 ^ HashBits - 1)]

\* get_table_snapshot_data is called on a database of one table, of any content
InitFp ==
    /\ threads = 1
    /\ tables = <<<< <<"a">>, <<"a">> >>>>
    /\ db \in [1..N -> TableStates(SeqsUpTo(FpRows, MaxRows))]
    /\ args = [command |-> "backup", skip_dump |-> TRUE, use_local |-> TRUE,
               container_name |-> TRUE]
    /\ file = [exists |-> FALSE, data |-> EmptyDict]
    /\ mainPc = "scanning"
    /\ pool = "open"
    /\ status = -1
    /\ dump = "none"
    /\ before_snapshot = EmptyDict
    /\ after_snapshot = EmptyDict
    /\ ScanCalled
    /\ NoReport

SpecFp == InitFp /\ [][ScanStep]_vars

\* the keys of the snapshots handed to generate_excel_report
ReportKeys == {Key(<<"a">>, t) : t \in {<<"a">>, <<"a", ".", "a">>, <<"b">>}}

\* a legacy snapshot value: the bare row count
LegacyCount(n) == [DefaultResult EXCEPT !.count = n, !.isInt = TRUE]

\* the fingerprints a scan can produce
ScanFps == {FpOf(o) : o \in TableStates(SeqsUpTo(Rows, MaxRows))}

\* the values a snapshot file can hold
FileFps == ScanFps \cup {LegacyCount(n) : n \in 0..MaxRows}

\* the fingerprints of the tables of a scan that fails nowhere
SmallFps == {FpOf(o) : o \in {x \in ScanStates : x.failAt = "none"}}

\* the dicts with keys in K and values in F
Dicts(K, F) == UNION {[S -> F] : S \in SUBSET K}

\* the (before, after) pairs: any two snapshots over ReportKeys with few
\* fingerprints, and any two fingerprints under one key
ReportInputs ==
    (Dicts(ReportKeys, SmallFps) \X Dicts(ReportKeys, SmallFps)) \cup
    (Dicts({Key(<<"a">>, <<"a">>)}, FileFps) \X Dicts({Key(<<"a">>, <<"a">>)}, ScanFps))

\* the scan of a compare run has returned: generate_excel_report is called next
InitReport ==
    /\ threads = 1
    /\ tables = <<>>
    /\ db = <<>>
    /\ args = [command |-> "compare", skip_dump |-> FALSE, use_local |-> FALSE,
               container_name |-> TRUE]
    /\ \E io \in ReportInputs :
          /\ before_snapshot = io[1]
          /\ snapshot = io[2]
    /\ file = [exists |-> TRUE, data |-> before_snapshot]
    /\ after_snapshot = EmptyDict
    /\ dump = "none"
    /\ mainPc = "scanning"
    /\ pool = "open"
    /\ status = -1
    /\ used = {}
    /\ exhausted = FALSE
    /\ scanPc = "returned"
    /\ submitted = 0
    /\ pc = <<>>
    /\ conn = <<>>
    /\ result_data = <<>>
    /\ collected = {}
    /\ NoReport

SpecReport == InitReport /\ [][ReportStep]_vars

(***************************************************************************)
(* Properties of the scan (SpecScan).                                      *)
(***************************************************************************)
KeyOf(i) == Key(tables[i][1], tables[i][2])

ScanReturned == scanPc = "returned"

\* C1: when the scan returns, the snapshot has exactly one entry per
\* enumerated table, under the table's key, holding that table's own
\* result, and no other key.
C1_CompleteSnapshot ==
    ScanReturned =>
        /\ DOMAIN snapshot = {KeyOf(i) : i \in 1..N}
        /\ Cardinality(DOMAIN snapshot) = N
        /\ \A i \in 1..N : snapshot[KeyOf(i)] = result_data[i]

\* C2: a task that ends with its error set has every other field at its
\* default: count 0, checksum 0, pk_col None, pks [].
C2_ErrorMeansDefaults ==
    \A i \in 1..N :
        (pc[i] = "done" /\ result_data[i].error # PyNone) =>
            result_data[i] = [DefaultResult EXCEPT !.error = result_data[i].error]

\* C3: a finished task holds no connection, the scan's own connection is
\* held only during the catalog query, and once the scan has returned or
\* raised no connection is checked out.
C3_ConnectionsReleased ==
    /\ \A i \in 1..N : pc[i] = "done" => i \notin used
    /\ scanPc # "enumerate" => 0 \notin used
    /\ scanPc \in {"returned", "raised"} => used = {}

\* a scan has returned in which one task failed and one succeeded, each
\* after taking a connection
C3_Witness ==
    /\ ScanReturned
    /\ \E i \in 1..N : conn[i] /\ result_data[i].error # PyNone
    /\ \E i \in 1..N : conn[i] /\ result_data[i].error = PyNone

\* C4: at most `threads` connections are checked out, only running tasks
\* (one connection each) and the catalog query hold one, the catalog query
\* never holds one while a task runs, and no getconn finds the pool exhausted.
C4_PoolNeverExhausted ==
    /\ Cardinality(used) <= threads
    /\ used \subseteq Running \cup {0}
    /\ Cardinality(Running) <= threads
    /\ 0 \in used => Running = {}
    /\ ~exhausted
    /\ \A i \in 1..N : result_data[i].error # "exhausted"

\* every connection of a pool of two or more is checked out by a running task
C4_Witness ==
    /\ threads >= 2
    /\ Cardinality(used) = threads
    /\ used \subseteq Running

\* the snapshot assembled in submission order
RECURSIVE InOrder(_)
InOrder(k) == IF k = 0 THEN EmptyDict ELSE Put(InOrder(k - 1), KeyOf(k), result_data[k])

\* C6: whatever order the results arrive in, the snapshot returned is the
\* one the results give when taken in submission order.
C6_OrderIndependent == ScanReturned => snapshot = InOrder(N)

(***************************************************************************)
(* Properties of main (Spec).                                              *)
(***************************************************************************)
\* C5: a run that initialised the pool has closed it when the process ends.
C5_PoolClosedOnExit == (mainPc = "exited" /\ pool # "none") => pool = "closed"

(***************************************************************************)
(* Properties of the report (SpecReport).                                  *)
(***************************************************************************)
\* the loop of generate_excel_report has ended
ReportDone == mainPc = "report" /\ todo = <<>>

\* the keys of the summary rows, in sheet order
SummaryKeys == [i \in 1..Len(ws_summary) |-> Key(ws_summary[i].schema, ws_summary[i].table)]

\* the tags of summary row i
Tags(i) == Range(ws_summary[i].change_type)

\* the pks the report reads for key k of a snapshot
PksIn(snap, k) == IF k \in DOMAIN snap /\ ~snap[k].isInt THEN snap[k].pks ELSE <<>>

Occurs(x, s) == \E j \in 1..Len(s) : s[j] = x

Ascending(s) == \A j, k \in 1..Len(s) : j < k => LexLess(s[j], s[k])

\* the detail rows of a kind for a key
DetailsOf(k, kind) ==
    {j \in 1..Len(ws_details) :
        Key(ws_details[j].schema, ws_details[j].table) = k /\ ws_details[j].kind = kind}

\* C7: the summary has exactly one row for every key of either snapshot,
\* none for any other key, in ascending key order.
C7_OneRecordPerKey ==
    ReportDone =>
        /\ Range(SummaryKeys) = DOMAIN before_snapshot \cup DOMAIN after_snapshot
        /\ Len(ws_summary) = Cardinality(DOMAIN before_snapshot \cup DOMAIN after_snapshot)
        /\ Ascending(SummaryKeys)
        /\ Len(diffs) = Len(ws_summary)
        /\ \A i \in 1..Len(diffs) : diffs[i].key = SummaryKeys[i]

\* three keys were reconciled, one only in before and one only in after
C7_Witness ==
    /\ ReportDone
    /\ Len(ws_summary) = 3
    /\ DOMAIN before_snapshot \ DOMAIN after_snapshot # {}
    /\ DOMAIN after_snapshot \ DOMAIN before_snapshot # {}

\* C8: a row is tagged Content Mismatch iff its counts are equal, its
\* checksums differ and both key deltas are empty.
C8_ContentMismatchIff ==
    \A i \in 1..Len(ws_summary) :
        ("Content Mismatch" \in Tags(i)) <=>
            /\ diffs[i].count_before = diffs[i].count_after
            /\ diffs[i].checksum_before # diffs[i].checksum_after
            /\ diffs[i].missing_pks = {}
            /\ diffs[i].added_pks = {}

\* a row carries the Content Mismatch tag and nothing else, on a table with rows
C8_Witness ==
    \E i \in 1..Len(ws_summary) :
        /\ Tags(i) = {"Content Mismatch"}
        /\ diffs[i].count_before > 0

\* C9: a row is marked Y iff its counts differ, its checksums differ or a
\* key delta is non-empty; otherwise it is marked N and carries no tag.
C9_IsChangeIff ==
    \A i \in 1..Len(ws_summary) :
        LET differs ==
                \/ diffs[i].count_before # diffs[i].count_after
                \/ diffs[i].checksum_before # diffs[i].checksum_after
                \/ diffs[i].missing_pks # {}
                \/ diffs[i].added_pks # {}
        IN  /\ ws_summary[i].is_change = IF differs THEN "Y" ELSE "N"
            /\ ~differs => Tags(i) = {}
            /\ ws_summary[i].count_before = diffs[i].count_before
            /\ ws_summary[i].count_after = diffs[i].count_after

\* one report holds an unchanged table with rows and a changed one
C9_Witness ==
    /\ ReportDone
    /\ \E i \in 1..Len(ws_summary) :
          ws_summary[i].is_change = "N" /\ ws_summary[i].count_before > 0
    /\ \E i \in 1..Len(ws_summary) : ws_summary[i].is_change = "Y"

\* C10: the missing keys are the before pks that are not after pks, the
\* added keys the after pks that are not before pks, each listed once in
\* ascending order; Missing IDs is tagged, with one detail row listing them
\* (comma-joined, cut at the cell budget), iff there is a missing key, and
\* likewise Added IDs.
C10_KeyDeltas ==
    \A i \in 1..Len(ws_summary) :
        LET k == diffs[i].key
            pb == PksIn(before_snapshot, k)
            pa == PksIn(after_snapshot, k)
            missing == {x \in Range(pb) \cup Range(pa) : Occurs(x, pb) /\ ~Occurs(x, pa)}
            added == {x \in Range(pb) \cup Range(pa) : Occurs(x, pa) /\ ~Occurs(x, pb)}
        IN  /\ Range(diffs[i].missing_list) = missing
            /\ Range(diffs[i].added_list) = added
            /\ Ascending(diffs[i].missing_list)
            /\ Ascending(diffs[i].added_list)
            /\ ("Missing IDs" \in Tags(i)) <=> (missing # {})
            /\ ("Added IDs" \in Tags(i)) <=> (added # {})
            /\ Cardinality(DetailsOf(k, "Missing IDs")) = IF missing # {} THEN 1 ELSE 0
            /\ Cardinality(DetailsOf(k, "Added IDs")) = IF added # {} THEN 1 ELSE 0
            /\ \A j \in DetailsOf(k, "Missing IDs") :
                  ws_details[j].ids = CellText(diffs[i].missing_list)
            /\ \A j \in DetailsOf(k, "Added IDs") :
                  ws_details[j].ids = CellText(diffs[i].added_list)

\* two keys are missing although the counts are equal, listed "10" before "2"
C10_Witness ==
    \E i \in 1..Len(diffs) :
        /\ diffs[i].missing_list = <<StrOfInt(10), StrOfInt(2)>>
        /\ diffs[i].count_before = diffs[i].count_after
        /\ "Missing IDs" \in Tags(i)

\* C11: a row is tagged Count Mismatch iff its two counts differ, whatever
\* its checksums and key deltas are.
C11_CountMismatchIff ==
    \A i \in 1..Len(ws_summary) :
        LET k == diffs[i].key
            cb == IF k \in DOMAIN before_snapshot THEN before_snapshot[k].count ELSE 0
            ca == IF k \in DOMAIN after_snapshot THEN after_snapshot[k].count ELSE 0
        IN  /\ ("Count Mismatch" \in Tags(i)) <=> (cb # ca)
            /\ ws_summary[i].count_before = cb
            /\ ws_summary[i].count_after = ca

\* a row is tagged Count Mismatch although its checksums are equal and it
\* has no key delta: the before side lost a row whose hash prefix is 0
C11_Witness ==
    \E i \in 1..Len(ws_summary) :
        /\ Tags(i) = {"Count Mismatch"}
        /\ diffs[i].checksum_before = diffs[i].checksum_after
        /\ diffs[i].count_before > diffs[i].count_after
        /\ diffs[i].count_after > 0

\* generate_excel_report holds both snapshots
ReportRunning == mainPc # "scanning"

\* C12: when the two snapshots are equal, every row is marked N, carries no
\* tag, and the details sheet stays empty.
C12_Idempotent ==
    (ReportRunning /\ before_snapshot = after_snapshot) =>
        /\ ws_details = <<>>
        /\ \A i \in 1..Len(ws_summary) : ws_summary[i].is_change = "N" /\ Tags(i) = {}
        /\ \A i \in 1..Len(diffs) : diffs[i].missing_list = <<>> /\ diffs[i].added_list = <<>>

\* a snapshot whose table has a duplicate primary key was reconciled with itself
C12_Witness ==
    /\ ReportDone
    /\ before_snapshot = after_snapshot
    /\ Len(ws_summary) = 1
    /\ \E k \in DOMAIN before_snapshot : before_snapshot[k].pks = <<StrOfInt(2), StrOfInt(2)>>

\* the tags of a record
TagsOf(d) == Range(d.change_type)

AllDetailsOf(k) ==
    {j \in 1..Len(ws_details) : Key(ws_details[j].schema, ws_details[j].table) = k}

\* C14: a row marked Y has at least one detail row and a row marked N none;
\* when the counts differ and both key deltas are empty, the one detail row
\* is the Count Mismatch explanation, the key lists are empty and the tags
\* are exactly {Count Mismatch}.
C14_NeverUninformative ==
    \A i \in 1..Len(ws_summary) :
        LET d == diffs[i] IN
        /\ ws_summary[i].is_change = "Y" => AllDetailsOf(d.key) # {}
        /\ ws_summary[i].is_change = "N" => AllDetailsOf(d.key) = {}
        /\ (d.count_before # d.count_after /\ d.missing_pks = {} /\ d.added_pks = {}) =>
              /\ Cardinality(DetailsOf(d.key, "Count Mismatch")) = 1
              /\ AllDetailsOf(d.key) = DetailsOf(d.key, "Count Mismatch")
              /\ \A j \in AllDetailsOf(d.key) : ws_details[j].text = "No PK differences found"
              /\ d.missing_list = <<>> /\ d.added_list = <<>>
              /\ Tags(i) = {"Count Mismatch"}
              /\ ws_summary[i].is_change = "Y"

\* a table gained a row with a duplicate primary key: the counts differ and
\* the key sets do not
C14_Witness ==
    \E i \in 1..Len(ws_summary) :
        /\ diffs[i].count_before < diffs[i].count_after
        /\ PksIn(before_snapshot, diffs[i].key) = <<StrOfInt(2)>>
        /\ PksIn(after_snapshot, diffs[i].key) = <<StrOfInt(2), StrOfInt(2)>>
        /\ DetailsOf(diffs[i].key, "Count Mismatch") # {}

\* a snapshot with the error and pk_col of every fingerprint erased
WithoutError(snap) ==
    [k \in DOMAIN snap |-> [snap[k] EXCEPT !.error = PyNone, !.pk_col = PyNone]]

\* the fingerprint under k is a failed scan's, every other field at its default
FailedAtDefaults(snap, k) ==
    /\ k \in DOMAIN snap
    /\ snap[k].error # PyNone
    /\ snap[k] = Failed(DefaultResult, snap[k].error)

\* the fingerprint of a successfully scanned empty table
EmptyTableFp == WithStats(DefaultResult, <<>>)

StatsDone == {i \in 1..N : pc[i] \in {"pkcol", "pkfetch", "finally", "done"}
                           /\ db[i].failAt \notin {"connect", "stats"}}

\* the sum of f over the rows
RECURSIVE SumOver(_, _)
SumOver(f(_), rows) == IF rows = <<>> THEN 0 ELSE f(Head(rows).h) + SumOver(f, Tail(rows))

\* the 64-bit prefix as an unsigned integer
Unsigned(u) == u

\* the 64-bit prefix as a two's-complement integer
Signed(u) == u - 2 ^ HashBits * (u \div 2 ^ (HashBits - 1))

RECURSIVE SubRows(_, _, _)
SubRows(s, S, i) ==
    IF i > Len(s) THEN <<>>
    ELSE (IF i \in S THEN <<s[i]>> ELSE <<>>) \o SubRows(s, S, i + 1)

\* the orders in which n rows can be fetched
FetchOrders(n) == {p \in [1..n -> 1..n] : \A a, b \in 1..n : p[a] = p[b] => a = b}

\* C16: the checksum of the rows equals the sum of the partial checksums
\* over any partition of them into three (possibly empty) parts, and the
\* stored checksum is the same whatever the order the rows are read in.
C16_SumComposes ==
    \A i \in StatsDone :
        LET rows == db[i].rows
            n == Len(rows)
        IN  /\ Checksum(<<>>) = 0
            /\ \A part \in [1..n -> 1..3] :
                  Checksum(rows) =
                      Checksum(SubRows(rows, {x \in 1..n : part[x] = 1}, 1))
                      + Checksum(SubRows(rows, {x \in 1..n : part[x] = 2}, 1))
                      + Checksum(SubRows(rows, {x \in 1..n : part[x] = 3}, 1))
            /\ \A p \in FetchOrders(n) :
                  result_data[i].checksum =
                      PyString(StrOfInt(Checksum([x \in 1..n |-> rows[p[x]]])))

\* a table of two rows with different prefixes was fingerprinted
C16_Witness ==
    \E i \in StatsDone :
        /\ pc[i] = "done"
        /\ Len(db[i].rows) = 2
        /\ db[i].rows[1].h # db[i].rows[2].h
        /\ result_data[i].checksum = PyString(StrOfInt(Checksum(<<db[i].rows[2], db[i].rows[1]>>)))

\* the three queries of process_table
QuerySteps == {"stats", "pkcol", "pkfetch"}

\* result_data holds the stats of table i and nothing of its keys yet
StatsStored(i) ==
    /\ result_data[i].count = Len(db[i].rows)
    /\ result_data[i].checksum.isStr
    /\ result_data[i].pks = <<>>
    /\ result_data[i].error = PyNone

\* what holds of a task at each step
StepsInv ==
    \A i \in 1..N :
        /\ pc[i] \in QuerySteps => (i \in used /\ conn[i])
        /\ pc[i] = "stats" => result_data[i] = DefaultResult
        /\ pc[i] = "pkcol" => (StatsStored(i) /\ result_data[i].pk_col = PyNone)
        /\ pc[i] = "pkfetch" =>
              (StatsStored(i) /\ db[i].pk_col # PyNone /\ result_data[i].pk_col = db[i].pk_col)
        /\ result_data[i].pks # <<>> => result_data[i].pk_col # PyNone
        /\ i \in used => pc[i] \in QuerySteps \cup {"finally"}

\* how a task moves from step to step
StepsAct ==
    \A i \in 1..N :
        /\ pc[i] = "stats" => pc'[i] \in {"stats", "pkcol", "finally"}
        /\ pc[i] = "pkcol" => pc'[i] \in {"pkcol", "pkfetch", "finally"}
        /\ pc[i] = "pkfetch" => pc'[i] \in {"pkfetch", "finally"}
        /\ (pc[i] = "pkcol" /\ pc'[i] = "finally" /\ result_data'[i].error = PyNone) =>
              db[i].pk_col = PyNone
        /\ (i \notin used /\ i \in used') => (pc[i] = "queued" /\ pc'[i] = "stats")
        /\ (i \in used /\ i \notin used') => (pc[i] = "finally" /\ pc'[i] = "done")
        /\ (pc[i] = "pkfetch" /\ pc'[i] = "finally" /\ result_data'[i].error = PyNone) =>
              result_data'[i].pks = SortList(PkStrings(db[i].rows))

\* C19: a task runs the stats query, then the primary-key column lookup,
\* then the key fetch, holding its one connection throughout; the key fetch
\* runs only when a primary-key column was found; the connection goes back
\* to the pool only in the finally step, after the last executed query.
C19_StepsOrdered == [](StepsInv) /\ [][StepsAct]_vars

\* one task is fetching keys on its connection while another runs its stats
\* query on a different one
C19_Witness ==
    \E i, j \in 1..N :
        /\ pc[i] = "pkfetch"
        /\ pc[j] = "stats"
        /\ {i, j} \subseteq used
        /\ Cardinality(used) = 2

\* perform_backup ran and did not complete the dump
BackupFailed == dump \in {"exit", "CalledProcessError", "Exception"}

\* the dump command failed: check_call or open raised inside the try
DumpCommandFailed == dump \in {"CalledProcessError", "Exception"}

\* get_table_snapshot_data has been entered
ScanStarted == scanPc # "call" \/ mainPc = "scanning"

\* C17 as stated: whatever way perform_backup fails, the run goes on to the
\* table snapshot; it never ends with the scan not started.
C17_AnyFailureGoesOn ==
    (BackupFailed /\ mainPc = "exited") => ScanStarted

\* what holds once the dump command has failed
GoesOnInv ==
    DumpCommandFailed =>
        /\ mainPc \in {"snapshot", "scanning", "close", "exited"}
        /\ mainPc = "exited" => scanPc \in {"returned", "raised"}
        /\ mainPc = "close" => (file.exists /\ file.data = snapshot /\ scanPc = "returned")
        /\ (mainPc = "exited" /\ status = 0) => (file.exists /\ file.data = snapshot)

\* the step on which the dump command fails leads to the scan
GoesOnAct ==
    (mainPc = "dump" /\ dump' \in {"CalledProcessError", "Exception"}) =>
        (mainPc' = "snapshot" /\ status' = status)

\* C17, amended: when the dump command fails (it returns non-zero, or
\* starting it or opening the dump file raises), the run still calls the
\* table scan and, the scan having returned, saves the snapshot file; only
\* the docker mode without a container name ends the run in perform_backup.
C17_DumpFailureGoesOn == [](GoesOnInv) /\ [][GoesOnAct]_vars

\* a run whose dump command failed has ended with status 0 and a snapshot
\* file holding the scan
C17_Witness ==
    /\ DumpCommandFailed
    /\ mainPc = "exited"
    /\ status = 0
    /\ file.exists
    /\ scanPc = "returned"
    /\ file.data = snapshot

\* no step of either command has run
NoStepRan ==
    /\ scanPc = "call"
    /\ dump = "none"
    /\ before_snapshot = EmptyDict
    /\ after_snapshot = EmptyDict
    /\ NoReport

\* what holds of the two fatal preconditions
FatalInv ==
    /\ pool = "none" =>
          /\ mainPc \in {"init", "exited"}
          /\ NoStepRan
          /\ args.command = "backup" => ~file.exists
          /\ mainPc = "exited" => status > 0
    /\ (args.command = "compare" /\ ~file.exists) =>
          /\ mainPc \in {"init", "load", "exited"}
          /\ NoStepRan
          /\ mainPc = "exited" => status > 0

\* the failing step is the last one
FatalAct ==
    /\ (mainPc = "init" /\ mainPc' # "init" /\ pool' = "none") =>
          (mainPc' = "exited" /\ status' = 1)
    /\ (mainPc = "load" /\ mainPc' # "load" /\ ~file.exists) =>
          (mainPc' = "exited" /\ status' = 1)

\* C18: when the pool cannot be initialised the run exits at once with a
\* non-zero status and no command step has run; when the compare command's
\* snapshot file does not exist the run exits at once with a non-zero
\* status, before any scan and before any report row.
C18_FatalPreconditions == [](FatalInv) /\ [][FatalAct]_vars

\* a compare run with an open pool has ended on the missing snapshot file
C18_Witness ==
    /\ args.command = "compare"
    /\ ~file.exists
    /\ pool = "open"
    /\ mainPc = "exited"
    /\ status = 1
    /\ NoStepRan

====
